---------------------------- MODULE Spec2Model ----------------------------
(***************************************************************************)
(* Payment distribution and revenue ledger of the CostByte platform:       *)
(* FNBPaymentProcessor and RevenueDistributor of                           *)
(* src/ai_core/payment_processor.py, RevenueTracker and RevenueAnalytics   *)
(* of src/ai_core/revenue_tracker.py, and the subscribe handler of         *)
(* src/app.py that calls them.                                             *)
(*                                                                         *)
(* Money.  A Decimal is modelled by its integer coefficient at a fixed     *)
(* exponent.  Amounts handed to process_payment carry two decimals (the    *)
(* Numeric(10, 2) prices of src/models/init.py, the integers of the daily  *)
(* mock transactions), so an amount is a number of cents (exponent -2).    *)
(* The ratios are Decimal('0.60'), Decimal('0.20'), Decimal('0.20'):       *)
(* coefficients 60, 20, 20 at exponent -2.  Decimal multiplication         *)
(* multiplies the coefficients and adds the exponents, so a share is a     *)
(* number of hundredths of a cent (exponent -4); nothing is rounded.       *)
(*                                                                         *)
(* Time.  datetime.now() is the variable clock, in ticks of half a second: *)
(* two calls that resume within one tick read the same time.  A coroutine  *)
(* suspended in asyncio.sleep(d) resumes when d has passed, not before.    *)
(*                                                                         *)
(* Scheduling.  process_payment is a coroutine: it is suspended at the     *)
(* gateway await and at each transfer await, and everything between two    *)
(* awaits is one step.  Several calls may be in flight at once.            *)
(*                                                                         *)
(* Reports.  A report operation is a step that sets the variable report   *)
(* to what it returns, and so does the subscribe handler when it answers;  *)
(* every other step clears it.  Spec is the application: payments, the     *)
(* daily distribution and the reports over the ledgers they write.         *)
(* ReportSpec is the two report classes over longer ledgers, which the     *)
(* bounds of Spec do not reach, and SummarySpec the summary of a ledger    *)
(* older than its window.  A float is kept as a quotient of integers.      *)
(*                                                                         *)
(* Agents and poster.  AIAgent of src/ai_core/ai_agents.py and             *)
(* SocialMediaAutoPoster of src/ai_core/auto_poster.py are objects of      *)
(* their own, called by nothing else in the repository: AgentSpec and      *)
(* PosterSpec run them alone.  Their coroutines await only coroutines that *)
(* never suspend, so a call is one step.                                   *)
(*                                                                         *)
(* payment_processor.py uses asyncio, List and timedelta without importing *)
(* them; the model reads the file as if they were imported.  The transfer  *)
(* of _fnb_transfer always answers completed, and so it does here.         *)
(***************************************************************************)
EXTENDS Integers, Sequences, FiniteSets, TLC

\* ---------------------------------------------------------------- bounds
MaxHistory == 2     \* payments started over a run
MaxClock == 5       \* the clock's last reading, in ticks
MaxDaily == 2       \* mock transactions of one daily distribution
MaxRuns == 2        \* stretches of equal entries in a ledger the reports are given
MaxTasks == 2       \* tasks an agent executes over a run
MaxContent == 4     \* content items given to a platform in one campaign
MaxPosts == 4       \* scheduled posts after which no campaign is started
MaxWeek == 3        \* the week of January in which the reports are asked for
EpochWeekday == 1   \* the weekday on which the clock starts: a Tuesday

\* ------------------------------------------------------ program constants
OwnerRatio == 60            \* Decimal('0.60')
AiOperationsRatio == 20     \* Decimal('0.20')
ReserveRatio == 20          \* Decimal('0.20')
MockMin == 1997             \* random.randint(1997, 4997)
MockMax == 4997
SummaryDays == 30           \* get_transaction_history(30)
GatewaySleep == 2           \* asyncio.sleep(1), in ticks
TransferSleep == 1          \* asyncio.sleep(0.5), in ticks
DayTicks == 172800          \* timedelta(days=1), in ticks
HistoryDays == 7            \* the default of get_*_history(days=7)
WeekLen == 7                \* distributions[-7:], a week of daily records
GrowthMinRows == 14         \* len(df) < 14, len(distributions) >= 14
CacMin == 500               \* random.uniform(500, 2000)
CacMax == 2000

\* The slot of the daily distribution's process_payment call.
DailySlot == "daily"
\* The web handler's process_payment calls that may be in flight at once.
Calls == {"web"}
Slots == {DailySlot} \cup Calls

\* Amounts, in cents, a caller may hand to process_payment: nothing in the
\* code restricts the sign; the shares of 19.99 are not whole cents.
Amounts == {-500, 1999, 249700}
\* The mock transactions' amounts: integers of rands within the range of
\* random.randint, in cents; 2497 is an amount the web handler is given too.
MockAmounts == {a \in {249700, MockMax * 100} : MockMin * 100 <= a /\ a <= MockMax * 100}

\* What random.uniform(500, 2000) may draw: the ends of the range, in rands.
CacDraws == {CacMin, CacMax}

NoId == <<>>
\* No report was returned by the step just taken.
NoReport == [op |-> "none", args |-> <<>>, value |-> <<>>]
EmptyMap == [x \in {} |-> 0]

accounts ==
  [owner_account |-> "6212345678901",
   ai_operations_account |-> "6212345678902",
   reserve_account |-> "6212345678903"]

\* A variant of the ratios that leaves a tenth of the amount undistributed.
payout_distribution_short ==
  [owner |-> 60, ai_operations |-> 20, reserve |-> 10]

\* A variant of the ratios: half to the owner, a quarter to each other bucket.
payout_distribution_halved ==
  [owner |-> 50, ai_operations |-> 25, reserve |-> 25]

payout_distribution ==
  [owner |-> OwnerRatio, ai_operations |-> AiOperationsRatio, reserve |-> ReserveRatio]

\* FNBPaymentProcessor.__init__ takes no argument, assigns accounts,
\* payout_distribution and transaction_history, and compares nothing: the
\* sum of the ratios is not checked when the processor is constructed.
RatiosCheckedAtConstruction == FALSE

VARIABLES
  clock,                 \* datetime.now()
  transaction_history,   \* FNBPaymentProcessor.transaction_history
  calls,                 \* the process_payment coroutines, by slot
  started,               \* payments started so far (bounds the run)
  daily_distributions,   \* RevenueDistributor.daily_distributions
  daily,                 \* the distribute_daily_revenue coroutine
  subscriptions,         \* the rows of the subscriptions table
  revenue_data,          \* RevenueTracker.revenue_data
  report,                \* what the step just taken returned, if it was a report
  performance_metrics,   \* AIAgent.performance_metrics
  task_history,          \* AIAgent.task_history
  platform_performance,  \* SocialMediaAutoPoster.performance_metrics
  scheduled_posts        \* SocialMediaAutoPoster.scheduled_posts

vars ==
  <<clock, transaction_history, calls, started, daily_distributions, daily,
    subscriptions, revenue_data, report, performance_metrics, task_history,
    platform_performance, scheduled_posts>>

\* The attributes of the agent and of the poster.
workers == <<performance_metrics, task_history, platform_performance, scheduled_posts>>

\* ---------------------------------------------------------------- lists
\* A variant that puts the new record in front of the list.
ListInsertFirst(list, x) == <<x>> \o list

\* list.append(x)
ListAppend(list, x) == Append(list, x)

\* ------------------------------------------------------------- Decimal
\* Decimal.__mul__: coefficients multiply, exponents add (cents x ratio in
\* hundredths = hundredths of a cent).
DecMul(a, r) == a * r

\* -------------------------------------------------------- _distribute_funds
\* A variant of the split that truncates every share to whole cents.
DistributeFundsTruncating(amount) ==
  [owner_amount |-> (DecMul(amount, payout_distribution.owner) \div 100) * 100,
   ai_operations_amount |-> (DecMul(amount, payout_distribution.ai_operations) \div 100) * 100,
   reserve_amount |-> (DecMul(amount, payout_distribution.reserve) \div 100) * 100,
   distribution_breakdown |->
     [owner_percentage |-> payout_distribution.owner,
      ai_operations_percentage |-> payout_distribution.ai_operations,
      reserve_percentage |-> payout_distribution.reserve]]

\* A variant of the split that hands the odd cent to a bucket chosen by the
\* time of the call.
DistributeFundsByTime(amount) ==
  [owner_amount |-> DecMul(amount, payout_distribution.owner) + 100 * (clock % 2),
   ai_operations_amount |-> DecMul(amount, payout_distribution.ai_operations),
   reserve_amount |-> DecMul(amount, payout_distribution.reserve) - 100 * (clock % 2),
   distribution_breakdown |->
     [owner_percentage |-> payout_distribution.owner,
      ai_operations_percentage |-> payout_distribution.ai_operations,
      reserve_percentage |-> payout_distribution.reserve]]

DistributeFunds(amount) ==
  [owner_amount |-> DecMul(amount, payout_distribution.owner),
   ai_operations_amount |-> DecMul(amount, payout_distribution.ai_operations),
   reserve_amount |-> DecMul(amount, payout_distribution.reserve),
   distribution_breakdown |->
     [owner_percentage |-> payout_distribution.owner,
      ai_operations_percentage |-> payout_distribution.ai_operations,
      reserve_percentage |-> payout_distribution.reserve]]

\* The keys of the distribution dict, in insertion order.
DistKeys ==
  <<"owner_amount", "ai_operations_amount", "reserve_amount", "distribution_breakdown">>

\* k.endswith('_amount')
EndsWithAmount(k) == k \in {"owner_amount", "ai_operations_amount", "reserve_amount"}

\* account_type.replace('_amount', '')
BaseType(k) ==
  CASE k = "owner_amount" -> "owner"
    [] k = "ai_operations_amount" -> "ai_operations"
    [] k = "reserve_amount" -> "reserve"

\* f"{base_type}_account"
AccountKey(b) ==
  CASE b = "owner" -> "owner_account"
    [] b = "ai_operations" -> "ai_operations_account"
    [] b = "reserve" -> "reserve_account"

\* A variant of the lookup that sends every bucket to the owner account.
AccountOfOwnerOnly(b) == accounts["owner_account"]

\* self.accounts[f"{base_type}_account"]
AccountOf(b) == accounts[AccountKey(b)]

\* [(k, v) for k, v in distribution.items() if k.endswith('_amount')]
AmountKeys == SelectSeq(DistKeys, EndsWithAmount)

\* ------------------------------------------------------ gateway, transfer
\* f"FNB_{md5(str(datetime.now()))[:16]}": a function of the clock reading
\* alone, taken to be injective on the readings of the model.
TxnId(now) == <<"FNB", now>>

\* _fnb_payment_gateway's return value; ok is random.random() >= 0.02.
GatewayResult(ok, now) ==
  IF ok THEN [status |-> "success", transaction_id |-> TxnId(now)]
        ELSE [status |-> "failed", transaction_id |-> NoId]

\* A variant of the transfer that the bank rejects.
FnbTransferRejected(account_number, amount, now) ==
  [status |-> "failed",
   to_account |-> account_number,
   amount |-> amount,
   timestamp |-> now,
   transfer_id |-> <<"TRF", account_number, now>>]

\* _fnb_transfer's return value.
FnbTransfer(account_number, amount, now) ==
  [status |-> "completed",
   to_account |-> account_number,
   amount |-> amount,
   timestamp |-> now,
   transfer_id |-> <<"TRF", account_number, now>>]

\* ------------------------------------------------------- process_payment
IdleCall ==
  [pc |-> "idle", amount |-> 0, customer_email |-> <<>>,
   payment_result |-> [status |-> "none", transaction_id |-> NoId],
   distribution |-> EmptyMap, payouts |-> EmptyMap, todo |-> <<>>,
   wake |-> 0, payment_status |-> "none"]

\* The call up to its first await, inside _fnb_payment_gateway: the charge
\* is requested and not yet answered.
StartCall(amount, email, now) ==
  [IdleCall EXCEPT !.pc = "gateway", !.amount = amount, !.customer_email = email,
                   !.wake = now + GatewaySleep,
                   !.payment_result = [status |-> "pending", transaction_id |-> NoId]]

\* A variant of the record that is stored as still pending.
TransactionRecordPending(call, now) ==
  [transaction_id |-> call.payment_result.transaction_id,
   amount |-> call.amount,
   customer_email |-> call.customer_email,
   distribution |-> call.distribution,
   payouts |-> call.payouts,
   timestamp |-> now,
   status |-> "pending"]

\* A variant of the record that leaves the transfers' answers out.
TransactionRecordWithoutPayouts(call, now) ==
  [transaction_id |-> call.payment_result.transaction_id,
   amount |-> call.amount,
   customer_email |-> call.customer_email,
   distribution |-> call.distribution,
   payouts |-> EmptyMap,
   timestamp |-> now,
   status |-> "completed"]

\* The transaction record of lines 37-45.
TransactionRecord(call, now) ==
  [transaction_id |-> call.payment_result.transaction_id,
   amount |-> call.amount,
   customer_email |-> call.customer_email,
   distribution |-> call.distribution,
   payouts |-> call.payouts,
   timestamp |-> now,
   status |-> "completed"]

\* A variant that goes on to the split whatever the gateway answered.
AfterGatewayUnchecked(call, res, now) ==
  [call EXCEPT !.payment_result = res,
               !.distribution = DistributeFunds(call.amount),
               !.todo = AmountKeys,
               !.wake = now + TransferSleep,
               !.pc = "transfer"]

\* Lines 29-34 and 56: the gateway has answered; on success the split is
\* computed and the first transfer awaited, otherwise the call returns.
AfterGateway(call, res, now) ==
  IF res.status = "success"
    THEN [call EXCEPT !.payment_result = res,
                      !.distribution = DistributeFunds(call.amount),
                      !.todo = AmountKeys,
                      !.wake = now + TransferSleep,
                      !.pc = "transfer"]
    ELSE [call EXCEPT !.payment_result = res,
                      !.pc = "done",
                      !.payment_status = "failed"]

\* Lines 75-80: the awaited transfer of the first remaining bucket answers.
AfterTransfer(call, now) ==
  LET k == Head(call.todo)
      b == BaseType(k)
  IN [call EXCEPT !.payouts = (b :> FnbTransfer(AccountOf(b), call.distribution[k], now)) @@ @,
                  !.todo = Tail(@),
                  !.wake = now + TransferSleep]


\* The value process_payment returns (lines 48-54 and 56).
PaymentReturn(call) ==
  IF call.payment_status = "completed"
    THEN [payment_status |-> "completed",
          amount |-> call.amount,
          distribution |-> call.distribution,
          payouts |-> call.payouts,
          transaction_id |-> call.payment_result.transaction_id]
    ELSE [payment_status |-> "failed"]

\* ------------------------------------------------ distribute_daily_revenue
IdleDaily == [pc |-> "idle", transactions |-> <<>>, total |-> 0, idx |-> 0, results |-> EmptyMap]

RECURSIVE SumAmounts(_)
SumAmounts(ts) == IF ts = <<>> THEN 0 ELSE Head(ts).amount + SumAmounts(Tail(ts))

\* _calculate_daily_revenue: the mock transactions txn_0, txn_1, ... and
\* their total; amts are the amounts drawn by random.randint, in cents.
CalculateDailyRevenue(amts) ==
  LET ts == [i \in 1..Len(amts) |->
               [id |-> <<"txn", i - 1>>, amount |-> amts[i],
                customer_email |-> <<"customer", i - 1>>]]
  IN [pc |-> "running", transactions |-> ts, total |-> SumAmounts(ts),
      idx |-> 1, results |-> EmptyMap]

\* distribution_results[transaction['id']] = result, and the loop advances.
DailyCollect(d, ret) ==
  [d EXCEPT !.results = (d.transactions[d.idx].id :> ret) @@ @, !.idx = @ + 1]

\* Lines 173-179; "date" is the day of the timestamp and is left out.
DistributionRecord(d, now) ==
  [total_distributed |-> d.total,
   transaction_count |-> Len(d.transactions),
   distribution_details |-> d.results,
   timestamp |-> now]

\* What happens when the call in slot c returns as `call`: the web handler's
\* call is done; the daily loop stores the result and either starts the next
\* payment or appends the day's record and returns.
Returns(c, call) ==
  IF c = DailySlot
    THEN LET d == DailyCollect(daily, PaymentReturn(call)) IN
         IF d.idx <= Len(d.transactions)
           THEN /\ calls' = [calls EXCEPT ![c] =
                      StartCall(d.transactions[d.idx].amount,
                                d.transactions[d.idx].customer_email, clock)]
                /\ daily' = d
                /\ UNCHANGED daily_distributions
           ELSE /\ calls' = [calls EXCEPT ![c] = IdleCall]
                /\ daily' = IdleDaily
                /\ daily_distributions' =
                     ListAppend(daily_distributions, DistributionRecord(d, clock))
    ELSE /\ calls' = [calls EXCEPT ![c] = call]
         /\ UNCHANGED <<daily, daily_distributions>>

\* ------------------------------------------- subscribe_to_course, tracker
\* The calendar of datetime.now(): the clock starts at midnight of the day
\* of the first week of January 2024 whose weekday is EpochWeekday (1 January
\* 2024 is a Monday), and the model stays within that January.
Year == 2024
DayOf(now) == now \div DayTicks
\* The whole days since 1 January: now.day - 1.
DaysOfMonth(now) == DayOf(now) + EpochWeekday
\* now.weekday(): Monday is 0.
Weekday(now) == DaysOfMonth(now) % 7
\* now.isocalendar()[1]
WeekNumber(now) == DaysOfMonth(now) \div 7 + 1
\* now.month
MonthNumber(now) == 1

\* A variant of the handler's test that enrols on any answer.
EnrolledOnAnyAnswer(ret) == ret.payment_status \in {"completed", "failed"}

\* app.py line 118: the handler enrols the user when the payment completed.
Enrolled(ret) == ret.payment_status = "completed"

\* A variant of the Subscription that is stored as pending.
NewSubscriptionPending(call) ==
  [user_id |-> call.customer_email, course_id |-> <<"course", call.amount>>,
   amount_zar |-> call.amount, status |-> "pending"]

\* The Subscription of app.py lines 120-126; the course is known by its price.
NewSubscription(call) ==
  [user_id |-> call.customer_email, course_id |-> <<"course", call.amount>>,
   amount_zar |-> call.amount, status |-> "active"]

\* The dict handed to track_revenue (lines 131-136); float(price_zar) is the
\* double nearest to the price and is kept as the price in cents.
SubscriptionRevenue(call) ==
  [user_id |-> call.customer_email, amount |-> call.amount,
   type |-> "subscription", course_id |-> <<"course", call.amount>>]

\* The JSON the handler answers with (app.py lines 139-148, in and after
\* the branch of line 118), without the message and the row id of the
\* subscription.
SubscribeResponse(ret) ==
  IF ret.payment_status = "completed"
    THEN [status |-> "success", payment_reference |-> ret.transaction_id]
    ELSE [status |-> "error"]

\* RevenueTracker.track_revenue: the entry appended to revenue_data.
TrackRevenue(transaction, now) ==
  transaction @@ [timestamp |-> now, week_number |-> WeekNumber(now),
                  month_number |-> MonthNumber(now), year |-> Year]

\* ----------------------------------------------------------------- actions
\* AIAgent.__init__ and SocialMediaAutoPoster.__init__: empty dicts and lists.
WorkersConstructed ==
  /\ performance_metrics = EmptyMap
  /\ task_history = <<>>
  /\ platform_performance = EmptyMap
  /\ scheduled_posts = <<>>

Init ==
  /\ clock = 0
  /\ transaction_history = <<>>
  /\ calls = [c \in Slots |-> IdleCall]
  /\ started = 0
  /\ daily_distributions = <<>>
  /\ daily = IdleDaily
  /\ subscriptions = <<>>
  /\ revenue_data = <<>>
  /\ report = NoReport
  /\ WorkersConstructed

\* datetime.now() moves on by one tick.
Tick ==
  /\ clock < MaxClock
  /\ clock' = clock + 1
  /\ report' = NoReport
  /\ UNCHANGED workers
  /\ UNCHANGED <<transaction_history, calls, started, daily_distributions, daily,
                 subscriptions, revenue_data>>

\* The web handler calls process_payment(amount, customer_data).
ProcessPayment(c, amount) ==
  /\ calls[c].pc = "idle"
  /\ started < MaxHistory
  /\ calls' = [calls EXCEPT ![c] = StartCall(amount, <<"user", c>>, clock)]
  /\ started' = started + 1
  /\ report' = NoReport
  /\ UNCHANGED workers
  /\ UNCHANGED <<clock, transaction_history, daily_distributions, daily,
                 subscriptions, revenue_data>>

\* The gateway answers the call in slot c: failed (ok = FALSE) or success.
GatewayResponds(c, ok) ==
  /\ calls[c].pc = "gateway"
  /\ clock >= calls[c].wake
  /\ LET call == AfterGateway(calls[c], GatewayResult(ok, clock), clock) IN
       IF call.pc = "done"
         THEN Returns(c, call)
         ELSE /\ calls' = [calls EXCEPT ![c] = call]
              /\ UNCHANGED <<daily, daily_distributions>>
  /\ report' = NoReport
  /\ UNCHANGED workers
  /\ UNCHANGED <<clock, transaction_history, started, subscriptions, revenue_data>>

\* The transfer awaited by the call in slot c answers; after the last one
\* the transaction is recorded and the call returns.
TransferResponds(c) ==
  /\ calls[c].pc = "transfer"
  /\ clock >= calls[c].wake
  /\ LET call == AfterTransfer(calls[c], clock) IN
       IF call.todo = <<>>
         THEN /\ transaction_history' =
                   ListAppend(transaction_history, TransactionRecord(call, clock))
              /\ Returns(c, [call EXCEPT !.pc = "done", !.payment_status = "completed"])
         ELSE /\ calls' = [calls EXCEPT ![c] = call]
              /\ UNCHANGED <<transaction_history, daily, daily_distributions>>
  /\ report' = NoReport
  /\ UNCHANGED workers
  /\ UNCHANGED <<clock, started, subscriptions, revenue_data>>

\* The web handler goes on with the value process_payment returned: on a
\* completed payment it stores the subscription and tracks the revenue,
\* otherwise it answers with an error; report holds the answer.
HandlerReturns(c) ==
  /\ c \in Calls
  /\ calls[c].pc = "done"
  /\ IF Enrolled(PaymentReturn(calls[c]))
       THEN /\ subscriptions' = ListAppend(subscriptions, NewSubscription(calls[c]))
            /\ revenue_data' =
                 ListAppend(revenue_data, TrackRevenue(SubscriptionRevenue(calls[c]), clock))
       ELSE UNCHANGED <<subscriptions, revenue_data>>
  /\ calls' = [calls EXCEPT ![c] = IdleCall]
  /\ report' = [op |-> "subscribe_to_course", args |-> <<c>>,
                value |-> SubscribeResponse(PaymentReturn(calls[c]))]
  /\ UNCHANGED workers
  /\ UNCHANGED <<clock, transaction_history, started, daily_distributions, daily>>

\* distribute_daily_revenue up to its first suspension, inside the first
\* process_payment.
DistributeDailyRevenue(amts) ==
  /\ daily.pc = "idle"
  /\ started + Len(amts) <= MaxHistory
  /\ LET d == CalculateDailyRevenue(amts) IN
       /\ daily' = d
       /\ calls' = [calls EXCEPT ![DailySlot] =
            StartCall(d.transactions[1].amount, d.transactions[1].customer_email, clock)]
  /\ started' = started + Len(amts)
  /\ report' = NoReport
  /\ UNCHANGED workers
  /\ UNCHANGED <<clock, transaction_history, daily_distributions, subscriptions, revenue_data>>

\* -------------------------------------------------------------- reports
\* [t for t in self.transaction_history if t['timestamp'] >= cutoff_date],
\* with cutoff_date = datetime.now() - timedelta(days=days).
\* A variant of the history that applies no cutoff.
GetTransactionHistoryWhole(days) == transaction_history

GetTransactionHistory(days) ==
  LET cutoff == clock - days * DayTicks
      Recent(t) == t.timestamp >= cutoff
  IN SelectSeq(transaction_history, Recent)

RECURSIVE SumField(_, _)
SumField(ts, f) == IF ts = <<>> THEN 0 ELSE Head(ts)[f] + SumField(Tail(ts), f)

RECURSIVE SumDist(_, _)
SumDist(ts, k) == IF ts = <<>> THEN 0 ELSE Head(ts).distribution[k] + SumDist(Tail(ts), k)

IsCompleted(t) == t.status = "completed"

\* get_revenue_summary; a quotient is kept as numerator and denominator.
GetRevenueSummary ==
  LET recent == GetTransactionHistory(SummaryDays)
      total_revenue == SumField(recent, "amount")
      total_transactions == Len(recent)
  IN [total_revenue |-> total_revenue,
      total_transactions |-> total_transactions,
      average_transaction_value |->
        IF total_transactions > 0 THEN <<total_revenue, total_transactions>> ELSE <<0, 1>>,
      distribution_summary |->
        [owner |-> SumDist(recent, "owner_amount"),
         ai_operations |-> SumDist(recent, "ai_operations_amount"),
         reserve |-> SumDist(recent, "reserve_amount")],
      success_rate |->
        IF total_transactions > 0
          THEN <<Len(SelectSeq(recent, IsCompleted)), total_transactions>>
          ELSE <<0, 1>>]

\* The program's state apart from the value a report returns.
ledger ==
  <<clock, transaction_history, calls, started, daily_distributions, daily,
    subscriptions, revenue_data>>

\* A variant of a report that empties the history it has read.
ReturnedAndDrained(op, args, value) ==
  /\ report' = [op |-> op, args |-> args, value |-> value]
  /\ UNCHANGED workers
  /\ transaction_history' = <<>>
  /\ UNCHANGED <<clock, calls, started, daily_distributions, daily, subscriptions,
                 revenue_data>>

\* A report operation returns a value computed from the ledger and assigns
\* no attribute.
Returned(op, args, value) ==
  /\ report' = [op |-> op, args |-> args, value |-> value]
  /\ UNCHANGED workers
  /\ UNCHANGED ledger

RevenueSummary == Returned("get_revenue_summary", <<>>, GetRevenueSummary)

TransactionHistory(days) ==
  Returned("get_transaction_history", <<days>>, GetTransactionHistory(days))

\* ------------------------------------------------------------- floats
\* A float the reports compute is a quotient of integers, kept as
\* <<numerator, denominator>> with a positive denominator.  numpy's division
\* by zero raises nothing and answers inf, -inf or nan: <<1, 0>>, <<-1, 0>>
\* and <<0, 0>>.
Sign(n) == IF n > 0 THEN 1 ELSE IF n < 0 THEN -1 ELSE 0

FloatOf(n) == <<n, 1>>

FloatDiv(n, d) ==
  IF d > 0 THEN <<n, d>> ELSE IF d < 0 THEN <<-n, -d>> ELSE <<Sign(n), 0>>

FloatAdd(x, y) ==
  IF x[2] = 0 /\ y[2] = 0 THEN (IF x[1] = y[1] THEN x ELSE <<0, 0>>)
  ELSE IF x[2] = 0 THEN x
  ELSE IF y[2] = 0 THEN y
  ELSE <<x[1] * y[2] + y[1] * x[2], x[2] * y[2]>>

\* x / k for an integer k > 0, and x * k
FloatOver(x, k) == <<x[1], x[2] * k>>
FloatTimes(x, k) == <<x[1] * k, x[2]>>

IsFinite(x) == x[2] > 0
IsZero(x) == x[2] > 0 /\ x[1] = 0
\* x > 0, and x > 1/10 (a comparison with nan is False)
IsPositive(x) == x[1] > 0
ExceedsTenth(x) == IF x[2] = 0 THEN x[1] > 0 ELSE 10 * x[1] > x[2]

\* --------------------------------------------- RevenueDistributor reports
\* get_distribution_history(days)
GetDistributionHistory(days) ==
  LET cutoff == clock - days * DayTicks
      Recent(d) == d.timestamp >= cutoff
  IN SelectSeq(daily_distributions, Recent)

\* seq[-n:]
LastN(seq, n) == IF Len(seq) <= n THEN seq ELSE SubSeq(seq, Len(seq) - n + 1, Len(seq))
\* seq[:-n]
DropLastN(seq, n) == IF Len(seq) <= n THEN <<>> ELSE SubSeq(seq, 1, Len(seq) - n)

\* _estimate_account_balances: the total times the float ratios, kept in
\* hundredths of a cent.
EstimateAccountBalances(distributions) ==
  LET total_distributed == SumField(distributions, "total_distributed")
  IN [owner_account |-> total_distributed * OwnerRatio,
      ai_operations_account |-> total_distributed * AiOperationsRatio,
      reserve_account |-> total_distributed * ReserveRatio]

\* A variant of the growth that divides by the recent week's revenue.
WeeklyGrowthOverRecent(recent_week_revenue, previous_week_revenue) ==
  IF previous_week_revenue > 0
    THEN FloatDiv(recent_week_revenue - previous_week_revenue, recent_week_revenue)
    ELSE FloatOf(0)

\* Line 263: the quotient, or 0 when the previous week's revenue is not positive.
WeeklyGrowth(recent_week_revenue, previous_week_revenue) ==
  IF previous_week_revenue > 0
    THEN FloatDiv(recent_week_revenue - previous_week_revenue, previous_week_revenue)
    ELSE FloatOf(0)

\* A variant that takes a previous week as soon as a record lies before the
\* recent week.
CalculateGrowthMetricsEarly(distributions) ==
  IF Len(distributions) < 2
    THEN [weekly_growth |-> FloatOf(0), monthly_growth |-> FloatOf(0),
          trend |-> "insufficient_data"]
    ELSE
      LET recent_week ==
            IF Len(distributions) >= WeekLen THEN LastN(distributions, WeekLen)
                                             ELSE distributions
          previous_week ==
            IF Len(distributions) > WeekLen
              THEN LastN(DropLastN(distributions, WeekLen), WeekLen)
              ELSE recent_week
          weekly_growth ==
            WeeklyGrowth(SumField(recent_week, "total_distributed"),
                         SumField(previous_week, "total_distributed"))
      IN [weekly_growth |-> weekly_growth,
          monthly_growth |-> FloatTimes(weekly_growth, 4),
          trend |-> IF IsPositive(weekly_growth) THEN "growing" ELSE "stable",
          momentum |-> IF ExceedsTenth(weekly_growth) THEN "strong" ELSE "moderate"]

\* _calculate_growth_metrics
CalculateGrowthMetrics(distributions) ==
  IF Len(distributions) < 2
    THEN [weekly_growth |-> FloatOf(0), monthly_growth |-> FloatOf(0),
          trend |-> "insufficient_data"]
    ELSE
      LET recent_week ==
            IF Len(distributions) >= WeekLen THEN LastN(distributions, WeekLen)
                                             ELSE distributions
          previous_week ==
            IF Len(distributions) >= GrowthMinRows
              THEN LastN(DropLastN(distributions, WeekLen), WeekLen)
              ELSE recent_week
          weekly_growth ==
            WeeklyGrowth(SumField(recent_week, "total_distributed"),
                         SumField(previous_week, "total_distributed"))
      IN [weekly_growth |-> weekly_growth,
          monthly_growth |-> FloatTimes(weekly_growth, 4),
          trend |-> IF IsPositive(weekly_growth) THEN "growing" ELSE "stable",
          momentum |-> IF ExceedsTenth(weekly_growth) THEN "strong" ELSE "moderate"]

\* generate_financial_report
GenerateFinancialReport ==
  LET recent_distributions == GetDistributionHistory(SummaryDays)
      total_distributed == SumField(recent_distributions, "total_distributed")
  IN [report_period |-> "last_30_days",
      total_revenue_distributed |-> total_distributed,
      average_daily_revenue |->
        IF recent_distributions # <<>>
          THEN FloatDiv(total_distributed, Len(recent_distributions))
          ELSE FloatOf(0),
      total_transactions |-> SumField(recent_distributions, "transaction_count"),
      account_balances |-> EstimateAccountBalances(recent_distributions),
      growth_metrics |-> CalculateGrowthMetrics(recent_distributions),
      compliance_status |-> "fully_compliant"]

DistributionHistory(days) ==
  Returned("get_distribution_history", <<days>>, GetDistributionHistory(days))

FinancialReport == Returned("generate_financial_report", <<>>, GenerateFinancialReport)

\* ------------------------------------------------ RevenueTracker reports
\* _get_weekly_data, _get_monthly_data, _get_daily_data: week_start and
\* month_start keep now's time of day, day_start is midnight.
PeriodData(period) ==
  LET start ==
        CASE period = "weekly" -> clock - Weekday(clock) * DayTicks
          [] period = "monthly" -> clock - DaysOfMonth(clock) * DayTicks
          [] period = "daily" -> DayOf(clock) * DayTicks
      Since(d) == d.timestamp >= start
  IN IF period \in {"weekly", "monthly", "daily"}
       THEN SelectSeq(revenue_data, Since)
       ELSE revenue_data

\* 'col' in df.columns: the columns are the keys of the rows.
HasColumn(df, col) == \E i \in DOMAIN df : col \in DOMAIN df[i]

RECURSIVE SortedSeq(_)
SortedSeq(S) ==
  IF S = {} THEN <<>>
  ELSE LET m == CHOOSE x \in S : \A y \in S : x <= y
       IN <<m>> \o SortedSeq(S \ {m})

\* df.groupby('week_number')['amount'].sum(): one total per week number, in
\* the order of the week numbers.
WeeklyRevenue(df) ==
  LET weeks == SortedSeq({df[i].week_number : i \in DOMAIN df})
      Total(w) == LET InWeek(r) == r.week_number = w
                  IN SumField(SelectSeq(df, InWeek), "amount")
  IN [k \in DOMAIN weeks |-> Total(weeks[k])]

\* return 0.1  # Default 10% growth
DefaultGrowth == <<1, 10>>

\* _calculate_growth_rate
CalculateGrowthRate(df) ==
  IF ~HasColumn(df, "week_number") \/ Len(df) < GrowthMinRows
    THEN DefaultGrowth
    ELSE LET weekly_revenue == WeeklyRevenue(df) IN
         IF Len(weekly_revenue) < 2
           THEN DefaultGrowth
           ELSE LET current_week == weekly_revenue[Len(weekly_revenue)]
                    previous_week == weekly_revenue[Len(weekly_revenue) - 1]
                IN IF previous_week > 0
                     THEN FloatDiv(current_week - previous_week, previous_week)
                     ELSE DefaultGrowth

\* sum(growth_rates) over the weeks 2..i of the series
RECURSIVE SumGrowthRates(_, _)
SumGrowthRates(weekly_series, i) ==
  IF i < 2 THEN FloatOf(0)
  ELSE FloatAdd(SumGrowthRates(weekly_series, i - 1),
                FloatDiv(weekly_series[i] - weekly_series[i - 1], weekly_series[i - 1]))

\* _calculate_weekly_growth: the mean of the week-over-week growth rates;
\* the quotients are taken without a test of the divisor.
CalculateWeeklyGrowth(weekly_series) ==
  IF Len(weekly_series) < 2
    THEN FloatOf(0)
    ELSE FloatOver(SumGrowthRates(weekly_series, Len(weekly_series)),
                   Len(weekly_series) - 1)

\* _calculate_weekly_trend
CalculateWeeklyTrend(df) ==
  IF ~HasColumn(df, "week_number")
    THEN [trend |-> "stable", confidence |-> "low"]
    ELSE LET weekly == WeeklyRevenue(df) IN
         IF Len(weekly) < 2
           THEN [trend |-> "insufficient_data", confidence |-> "low"]
           ELSE [trend |-> IF weekly[Len(weekly)] > weekly[Len(weekly) - 1]
                             THEN "growing" ELSE "declining",
                 weekly_growth |-> CalculateWeeklyGrowth(weekly),
                 confidence |-> "medium"]

\* analyze_revenue; cac is the number random.uniform(500, 2000) draws in
\* _estimate_cac.  _calculate_daily_revenue aggregates the column 'id' and
\* raises KeyError when no row has it.  Of the result, summary_metrics and
\* weekly_trend are kept; the other entries are computed from df and the
\* targets alone.
AnalyzeRevenue(data, cac) ==
  IF data = <<>>
    THEN [status |-> "no_data"]
  ELSE IF HasColumn(data, "timestamp") /\ ~HasColumn(data, "id")
    THEN [raised |-> "KeyError"]
  ELSE [summary_metrics |->
          [total_revenue |-> SumField(data, "amount"),
           total_subscribers |-> Len(data),
           average_transaction_value |-> FloatDiv(SumField(data, "amount"), Len(data)),
           revenue_growth_rate |-> CalculateGrowthRate(data),
           customer_acquisition_cost |-> cac],
        time_analysis |-> [weekly_trend |-> CalculateWeeklyTrend(data)]]

\* get_revenue_analytics(period)
GetRevenueAnalytics(period, cac) == AnalyzeRevenue(PeriodData(period), cac)

RevenueAnalytics(period, cac) ==
  Returned("get_revenue_analytics", <<period>>, GetRevenueAnalytics(period, cac))

RECURSIVE SeqsUpTo(_, _)
SeqsUpTo(S, n) ==
  IF n = 0 THEN {<<>>}
  ELSE LET shorter == SeqsUpTo(S, n - 1)
       IN shorter \cup {Append(s, x) : s \in shorter, x \in S}

Next ==
  \/ Tick
  \/ \E c \in Calls, a \in Amounts : ProcessPayment(c, a)
  \/ \E c \in Slots, ok \in BOOLEAN : GatewayResponds(c, ok)
  \/ \E c \in Slots : TransferResponds(c)
  \/ \E c \in Calls : HandlerReturns(c)
  \/ \E amts \in SeqsUpTo(MockAmounts, MaxDaily) \ {<<>>} : DistributeDailyRevenue(amts)
  \/ RevenueSummary
  \/ \E days \in {HistoryDays, SummaryDays} : TransactionHistory(days)
  \/ DistributionHistory(HistoryDays)
  \/ FinancialReport
  \/ \E cac \in CacDraws : RevenueAnalytics("weekly", cac)

Spec == Init /\ [][Next]_vars

\* ------------------------------------------- the reports on longer ledgers
\* RevenueDistributor and RevenueTracker on their own, asked for their
\* reports over ledgers of up to MaxRuns stretches of 1 or 7 equal entries:
\* daily distributions of one mock transaction, one a day up to yesterday,
\* and revenue tracked on the Tuesdays of the weeks up to the current one.
\* track_revenue takes any dict; the entries either all carry an 'id' or are
\* the entries of subscribe_to_course, which carry none.
RunLengths == {1, WeekLen}

RECURSIVE Repeat(_, _)
Repeat(x, n) == IF n = 0 THEN <<>> ELSE <<x>> \o Repeat(x, n - 1)

RECURSIVE Flatten(_)
Flatten(runs) ==
  IF runs = <<>> THEN <<>> ELSE Repeat(Head(runs).item, Head(runs).n) \o Flatten(Tail(runs))

Runs(items) == SeqsUpTo([item : items, n : RunLengths], MaxRuns)

\* Midnight of the Tuesday of week w, and the time of the reports.
WeekTime(w) == ((w - 1) * 7 + 1 - EpochWeekday) * DayTicks
ReportTime == WeekTime(MaxWeek) + 1

\* The record of a day whose one mock transaction, of amount total, failed.
DayRecord(total, now) ==
  DistributionRecord(
    DailyCollect(CalculateDailyRevenue(<<total>>), [payment_status |-> "failed"]), now)

\* The daily records of the totals, the last one of yesterday.
Dated(totals) ==
  [k \in 1..Len(totals) |->
     DayRecord(totals[k], ReportTime - (Len(totals) - k + 1) * DayTicks)]

DrawnDistributions == {Dated(Flatten(rs)) : rs \in Runs(MockAmounts)}

\* The prices of the tracked subscriptions: a free course and one of 19.99.
RowAmounts == {0, 1999}

TrackedRow(amount, week, with_id) ==
  LET call == [IdleCall EXCEPT !.amount = amount, !.customer_email = <<"user", "web">>]
      transaction ==
        IF with_id THEN SubscriptionRevenue(call) @@ [id |-> <<"sub", week>>]
                   ELSE SubscriptionRevenue(call)
  IN TrackRevenue(transaction, WeekTime(week))

InTimeOrder(rows) ==
  \A i, j \in DOMAIN rows : i <= j => rows[i].timestamp <= rows[j].timestamp

DrawnRevenue ==
  {rows \in {Flatten(rs) : rs \in UNION {Runs({TrackedRow(a, w, with_id) :
                                                a \in RowAmounts, w \in 1..MaxWeek}) :
                                          with_id \in BOOLEAN}} :
     InTimeOrder(rows)}

Periods == {"weekly", "monthly", "daily", "all"}

InitReport ==
  /\ clock = ReportTime
  /\ transaction_history = <<>>
  /\ calls = [c \in Slots |-> IdleCall]
  /\ started = 0
  /\ daily = IdleDaily
  /\ subscriptions = <<>>
  /\ \/ daily_distributions \in DrawnDistributions /\ revenue_data = <<>>
     \/ daily_distributions = <<>> /\ revenue_data \in DrawnRevenue
  /\ report = NoReport
  /\ WorkersConstructed

NextReport ==
  \/ DistributionHistory(HistoryDays)
  \/ FinancialReport
  \/ \E period \in Periods, cac \in CacDraws : RevenueAnalytics(period, cac)

ReportSpec == InitReport /\ [][NextReport]_vars


\* ------------------------------------------------------------ properties
Buckets == {"owner", "ai_operations", "reserve"}

\* An amount of cents as a number of hundredths of a cent (the same value).
Fine(cents) == cents * 100

SplitSum(d) == d.owner_amount + d.ai_operations_amount + d.reserve_amount

HasDistribution(x) == DOMAIN x.distribution # {}

\* The calls whose split has been computed, and the recorded transactions.
Splits ==
  {calls[c] : c \in {x \in Slots : HasDistribution(calls[x])}}
    \cup {transaction_history[i] : i \in DOMAIN transaction_history}

WholeCents(x) == x % 100 = 0

\* C1: for every amount handed to _distribute_funds, owner_amount +
\* ai_operations_amount + reserve_amount equals the amount exactly, also when
\* the shares are not whole cents.
C1_SplitExact == \A x \in Splits : SplitSum(x.distribution) = Fine(x.amount)

C1_Witness ==
  \E i \in DOMAIN transaction_history :
    /\ transaction_history[i].amount = 1999
    /\ ~WholeCents(transaction_history[i].distribution.owner_amount)

\* C2: every bucket amount of the split is a whole number of cents.
C2_WholeCentShares ==
  \A x \in Splits :
    /\ WholeCents(x.distribution.owner_amount)
    /\ WholeCents(x.distribution.ai_operations_amount)
    /\ WholeCents(x.distribution.reserve_amount)

\* C3: a charge that is pending or failed has no distribution and no payout,
\* and no transfer is awaited for it; every recorded transaction carries the
\* id of a successful charge, and a failed return carries no distribution.
C3_OnlyAfterSuccess ==
  /\ \A c \in Slots :
       calls[c].payment_result.status # "success" =>
         /\ ~HasDistribution(calls[c])
         /\ DOMAIN calls[c].payouts = {}
         /\ calls[c].pc # "transfer"
  /\ \A i \in DOMAIN transaction_history : transaction_history[i].transaction_id # NoId
  /\ \A id \in DOMAIN daily.results :
       daily.results[id].payment_status = "failed" =>
         DOMAIN daily.results[id] = {"payment_status"}

C3_Witness ==
  \E c \in Calls :
    /\ calls[c].pc = "done"
    /\ calls[c].payment_result.status = "failed"
    /\ PaymentReturn(calls[c]) = [payment_status |-> "failed"]

\* C4: a charge the gateway failed is in transaction_history with status
\* failed.
C4_FailedChargeRecorded ==
  \A c \in Calls :
    (calls[c].pc = "done" /\ calls[c].payment_status = "failed") =>
      \E i \in DOMAIN transaction_history :
        /\ transaction_history[i].status = "failed"
        /\ transaction_history[i].customer_email = calls[c].customer_email
        /\ transaction_history[i].amount = calls[c].amount

\* The status of the transaction of a call: pending while the call is
\* suspended, then what the call returns.
TxnStatus(call) ==
  IF call.pc \in {"gateway", "transfer"} THEN "pending" ELSE call.payment_status

\* C5: a transaction goes from pending to completed or to failed and nowhere
\* else; a record enters transaction_history with a terminal status, and no
\* step (a payment, a report, the daily distribution) changes the status of
\* a record already there.
C5_StatusNeverReversed ==
  [][/\ \A i \in DOMAIN transaction_history :
          /\ i \in DOMAIN transaction_history'
          /\ transaction_history'[i].status = transaction_history[i].status
     /\ \A i \in DOMAIN transaction_history' \ DOMAIN transaction_history :
          transaction_history'[i].status \in {"completed", "failed"}
     /\ \A c \in Calls :
          /\ TxnStatus(calls[c]) = "pending" =>
               TxnStatus(calls'[c]) \in {"pending", "completed", "failed"}
          /\ TxnStatus(calls[c]) \in {"completed", "failed"} =>
               TxnStatus(calls'[c]) \in {TxnStatus(calls[c]), "none"}]_vars

C5_Witness ==
  /\ Len(transaction_history) = 2
  /\ \E c \in Calls : TxnStatus(calls[c]) = "completed"
  /\ daily_distributions # <<>>

\* C6: a transaction id is finalized at most once: a record is never added
\* to transaction_history under an id a record there already carries.
C6_FinalizedOncePerId ==
  [][\A i \in DOMAIN transaction_history' \ DOMAIN transaction_history :
       \A j \in DOMAIN transaction_history :
         transaction_history[j].transaction_id # transaction_history'[i].transaction_id]_vars

\* C7: a payment of a non-positive amount reaches neither the gateway nor a
\* transfer, and is not recorded.
C7_NonPositiveRejected ==
  /\ \A c \in Slots : calls[c].pc \in {"gateway", "transfer"} => calls[c].amount > 0
  /\ \A i \in DOMAIN transaction_history : transaction_history[i].amount > 0

\* The accounts of lines 10-14, by bucket.
ConfiguredAccount ==
  [owner |-> "6212345678901",
   ai_operations |-> "6212345678902",
   reserve |-> "6212345678903"]

BucketAmount(d, b) ==
  CASE b = "owner" -> d.owner_amount
    [] b = "ai_operations" -> d.ai_operations_amount
    [] b = "reserve" -> d.reserve_amount

OnePayoutPerBucket(x) ==
  /\ DOMAIN x.payouts = Buckets
  /\ \A b \in Buckets :
       /\ x.payouts[b].amount = BucketAmount(x.distribution, b)
       /\ x.payouts[b].to_account = ConfiguredAccount[b]

\* C10: after a successful process_payment the recorded transaction, and the
\* value returned, hold one payout per bucket, with the bucket's amount of
\* the distribution and the bucket's configured account.
C10_OnePayoutPerBucket ==
  /\ \A i \in DOMAIN transaction_history : OnePayoutPerBucket(transaction_history[i])
  /\ \A c \in Calls :
       (calls[c].pc = "done" /\ calls[c].payment_status = "completed") =>
         OnePayoutPerBucket(PaymentReturn(calls[c]))

C10_Witness ==
  \E c \in Calls :
    /\ calls[c].pc = "done"
    /\ calls[c].payment_status = "completed"
    /\ calls[c].amount = 1999
    /\ \E i \in DOMAIN transaction_history :
         transaction_history[i].customer_email = calls[c].customer_email

\* C11: every record of transaction_history with status completed holds the
\* payouts of all three buckets, each of them with status completed.
C11_CompletedMeansAllPaid ==
  \A i \in DOMAIN transaction_history :
    transaction_history[i].status = "completed" =>
      /\ DOMAIN transaction_history[i].payouts = Buckets
      /\ \A b \in Buckets : transaction_history[i].payouts[b].status = "completed"

C11_Witness ==
  \E i \in DOMAIN transaction_history :
    /\ transaction_history[i].status = "completed"
    /\ \A b \in Buckets : transaction_history[i].payouts[b].status = "completed"

\* The slots whose call computes its split in this step (line 31).
SplitComputed(c) == ~HasDistribution(calls[c]) /\ HasDistribution(calls'[c])

C14_Split2497 ==
  \A x \in Splits :
    x.amount = 249700 =>
      /\ x.distribution.owner_amount = Fine(149820)
      /\ x.distribution.ai_operations_amount = Fine(49940)
      /\ x.distribution.reserve_amount = Fine(49940)
      /\ SplitSum(x.distribution) = Fine(249700)

C14_Witness ==
  \E i \in DOMAIN transaction_history :
    /\ transaction_history[i].amount = 249700
    /\ transaction_history[i].payouts["owner"].amount = Fine(149820)

\* The records of the web handler's payments, and the amount of the payments
\* that have completed and are not yet tracked (the handler has still to go on).
IsWebPayment(t) == \E c \in Calls : t.customer_email = <<"user", c>>

RECURSIVE SumAmountOf(_)
SumAmountOf(S) ==
  IF S = {} THEN 0
  ELSE LET c == CHOOSE x \in S : TRUE IN calls[c].amount + SumAmountOf(S \ {c})

Untracked == {c \in Calls : calls[c].pc = "done" /\ calls[c].payment_status = "completed"}

SomePaymentFailed ==
  \E i \in DOMAIN daily_distributions :
    \E id \in DOMAIN daily_distributions[i].distribution_details :
      daily_distributions[i].distribution_details[id].payment_status = "failed"

\* C15: total_revenue and total_transactions of get_revenue_summary are the
\* sum and the number of the completed transactions of the window, and the
\* tracked revenue holds one entry, with its amount, for each completed web
\* payment and none for a payment that failed or is still pending.
C15_CompletedOnly ==
  /\ LET completed == SelectSeq(GetTransactionHistory(SummaryDays), IsCompleted) IN
       /\ GetRevenueSummary.total_revenue = SumField(completed, "amount")
       /\ GetRevenueSummary.total_transactions = Len(completed)
  /\ LET paid == SelectSeq(SelectSeq(transaction_history, IsWebPayment), IsCompleted) IN
       /\ SumField(revenue_data, "amount") + SumAmountOf(Untracked) = SumField(paid, "amount")
       /\ Len(revenue_data) + Cardinality(Untracked) = Len(paid)

C15_Witness ==
  /\ revenue_data # <<>>
  /\ SomePaymentFailed
  /\ GetRevenueSummary.total_transactions = 1
  /\ GetRevenueSummary.total_revenue = revenue_data[1].amount

\* The revenue of the last week of records, of the week before it, and the
\* number of records of that week before.
RecentWeekTotal(ds) == SumField(LastN(ds, WeekLen), "total_distributed")
PreviousWeek(ds) == LastN(DropLastN(ds, WeekLen), WeekLen)
PreviousWeekTotal(ds) == SumField(PreviousWeek(ds), "total_distributed")

ReportedWeeks == WeeklyRevenue(PeriodData(report.args[1]))

NoPreviousRevenue(weekly) == Len(weekly) < 2 \/ weekly[Len(weekly) - 1] = 0

\* C17: in a result get_revenue_analytics returns, revenue_growth_rate and
\* the weekly_growth of the weekly trend are 0 whenever the data holds no
\* previous week or the previous week's total is 0.
C17_GrowthZeroWithoutPreviousWeek ==
  (report.op = "get_revenue_analytics" /\ "summary_metrics" \in DOMAIN report.value) =>
    (NoPreviousRevenue(ReportedWeeks) =>
       /\ IsZero(report.value.summary_metrics.revenue_growth_rate)
       /\ "weekly_growth" \in DOMAIN report.value.time_analysis.weekly_trend =>
            IsZero(report.value.time_analysis.weekly_trend.weekly_growth))

\* C18: a report asked for twice in a row, with the same arguments and with
\* the ledger and the clock as they were, returns the same result.
C18_ReportsDeterministic ==
  [][(/\ report.op # "none"
      /\ report'.op = report.op
      /\ report'.args = report.args
      /\ ledger' = ledger) => report'.value = report.value]_vars

ReportOps ==
  {"get_transaction_history", "get_revenue_summary", "get_distribution_history",
   "generate_financial_report", "get_revenue_analytics"}

\* C19: a step in which get_transaction_history, get_revenue_summary,
\* get_distribution_history, generate_financial_report or
\* get_revenue_analytics returns leaves transaction_history,
\* daily_distributions and revenue_data as they were.
C19_ReportsReadOnly ==
  [][report'.op \in ReportOps =>
       /\ transaction_history' = transaction_history
       /\ daily_distributions' = daily_distributions
       /\ revenue_data' = revenue_data]_vars

C19_Witness ==
  /\ report.op = "get_revenue_analytics"
  /\ transaction_history # <<>>
  /\ daily_distributions # <<>>
  /\ revenue_data # <<>>

\* C20: transaction_history and daily_distributions only grow: every record
\* stays at its place with its amount, distribution, payouts and every other
\* field as they were, whatever step is taken.
C20_LedgerAppendOnly ==
  [][/\ Len(transaction_history') >= Len(transaction_history)
     /\ SubSeq(transaction_history', 1, Len(transaction_history)) = transaction_history
     /\ Len(daily_distributions') >= Len(daily_distributions)
     /\ SubSeq(daily_distributions', 1, Len(daily_distributions)) = daily_distributions]_vars

C20_Witness ==
  /\ Len(transaction_history) = 2
  /\ daily_distributions # <<>>
  /\ \E i \in DOMAIN transaction_history : IsWebPayment(transaction_history[i])

\* C21: no two records of transaction_history carry the same transaction_id.
C21_UniqueTransactionIds ==
  \A i, j \in DOMAIN transaction_history :
    i # j => transaction_history[i].transaction_id # transaction_history[j].transaction_id

\* The amounts of the payments of a day that returned completed.
RECURSIVE SumCompleted(_, _)
SumCompleted(details, ids) ==
  IF ids = {} THEN 0
  ELSE LET id == CHOOSE x \in ids : TRUE
       IN (IF details[id].payment_status = "completed" THEN details[id].amount ELSE 0)
            + SumCompleted(details, ids \ {id})

\* C22: the total_distributed of every daily record is the sum of the
\* amounts of the day's transactions whose process_payment returned
\* completed; a failed payment's amount is not in it.
C22_DailyTotalCountsCompleted ==
  \A i \in DOMAIN daily_distributions :
    daily_distributions[i].total_distributed =
      SumCompleted(daily_distributions[i].distribution_details,
                   DOMAIN daily_distributions[i].distribution_details)

\* The ratios a split was computed with, in hundredths, summed.
RatioSum(x) ==
  x.distribution.distribution_breakdown.owner_percentage
    + x.distribution.distribution_breakdown.ai_operations_percentage
    + x.distribution.distribution_breakdown.reserve_percentage

Recorded(x) ==
  \E i \in DOMAIN transaction_history :
    /\ transaction_history[i].transaction_id = x.payment_result.transaction_id
    /\ transaction_history[i].distribution = x.distribution

\* C24: while a call of process_payment has a transfer of its distribution
\* issued, or has received the answer of one, the distribution is already
\* written to transaction_history.
C24_RecordedBeforeTransfer ==
  \A c \in Slots :
    (calls[c].pc = "transfer" \/ DOMAIN calls[c].payouts # {}) => Recorded(calls[c])

\* The call in slot c gets the answer of its last transfer in this step.
Finishes(c) ==
  /\ calls[c].pc = "transfer"
  /\ calls'[c].pc # "transfer"

\* The record r is the one of call x: its id, amount, customer and
\* distribution, the answers x had received and one answer for each bucket.
OwnRecord(r, x) ==
  /\ r.transaction_id = x.payment_result.transaction_id
  /\ r.amount = x.amount
  /\ r.customer_email = x.customer_email
  /\ r.distribution = x.distribution
  /\ DOMAIN r.payouts = Buckets
  /\ \A b \in DOMAIN x.payouts : r.payouts[b] = x.payouts[b]
  /\ \A b \in Buckets :
        /\ r.payouts[b].to_account = ConfiguredAccount[b]
        /\ r.payouts[b].amount = BucketAmount(x.distribution, b)

\* C25: in every step, each call that finishes its transfers appends one
\* record made of its own data to transaction_history, nothing else is
\* appended, and the records already there stay as they are.
C25_OneOwnRecordPerCall ==
  [][LET done == {c \in Slots : Finishes(c)} IN
       /\ Len(transaction_history') = Len(transaction_history) + Cardinality(done)
       /\ SubSeq(transaction_history', 1, Len(transaction_history)) = transaction_history
       /\ \A c \in done :
             OwnRecord(transaction_history'[Len(transaction_history')], calls[c])]_vars

\* A record was appended while another call was between its charge and its
\* own record.
C25_Witness ==
  \E c \in Slots :
    /\ calls[c].pc = "transfer"
    /\ transaction_history # <<>>
    /\ transaction_history[Len(transaction_history)].timestamp
         >= calls[c].payment_result.transaction_id[2]

\* ------------------------------------------- the summary of an older ledger
\* A ledger whose records lie weeks apart, read at times up to more than
\* SummaryDays after them.

\* The record of a payment started at time now that ran undisturbed: the
\* gateway answers after its sleep, each transfer after its own.
LedgerRecord(amount, now) ==
  LET charged == now + GatewaySleep
      first == charged + TransferSleep
      second == first + TransferSleep
      third == second + TransferSleep
      paid ==
        AfterTransfer(
          AfterTransfer(
            AfterTransfer(
              AfterGateway(StartCall(amount, <<"user", "web">>, now),
                           GatewayResult(TRUE, charged), charged),
              first),
            second),
          third)
  IN TransactionRecord(paid, third)

\* The time of the record of a payment started at midnight of week w's Tuesday.
LedgerTime(w) == WeekTime(w) + GatewaySleep + 3 * TransferSleep

DrawnLedger ==
  {rows \in SeqsUpTo({LedgerRecord(a, WeekTime(w)) : a \in Amounts, w \in 1..MaxWeek},
                     MaxHistory) :
     InTimeOrder(rows)}

\* The times of the summary: right after the last week's payments, exactly
\* SummaryDays after the first week's record, and one tick more than
\* SummaryDays after the second week's.
SummaryTimes ==
  {LedgerTime(MaxWeek) + 1,
   LedgerTime(1) + SummaryDays * DayTicks,
   LedgerTime(2) + SummaryDays * DayTicks + 1}

InitSummary ==
  /\ clock \in SummaryTimes
  /\ transaction_history \in DrawnLedger
  /\ calls = [c \in Slots |-> IdleCall]
  /\ started = 0
  /\ daily = IdleDaily
  /\ subscriptions = <<>>
  /\ daily_distributions = <<>>
  /\ revenue_data = <<>>
  /\ report = NoReport
  /\ WorkersConstructed

NextSummary ==
  \/ RevenueSummary
  \/ \E days \in {HistoryDays, SummaryDays} : TransactionHistory(days)

SummarySpec == InitSummary /\ [][NextSummary]_vars

\* The records of the ledger whose timestamp is at most SummaryDays old.
InWindow ==
  {i \in DOMAIN transaction_history :
     clock - transaction_history[i].timestamp <= SummaryDays * DayTicks}

\* C26: in the value get_revenue_summary returns, the three bucket totals of
\* distribution_summary add up to total_revenue, and total_transactions is
\* the number of ledger records of the last 30 days.
C26_SummaryAddsUp ==
  report.op = "get_revenue_summary" =>
    /\ report.value.distribution_summary.owner
         + report.value.distribution_summary.ai_operations
         + report.value.distribution_summary.reserve
         = Fine(report.value.total_revenue)
    /\ report.value.total_transactions = Cardinality(InWindow)

\* A summary of a ledger of which one record is older than 30 days and one
\* is not.
C26_Witness ==
  /\ report.op = "get_revenue_summary"
  /\ report.value.total_transactions = 1
  /\ Len(transaction_history) = 2

\* The handler of slot c answers in this step.
Answers(c) ==
  /\ calls[c].pc = "done"
  /\ calls'[c].pc = "idle"

\* One row was appended to rows, and the rows before it are as they were.
OneMore(rows, after) ==
  /\ Len(after) = Len(rows) + 1
  /\ SubSeq(after, 1, Len(rows)) = rows

\* C27: the subscriptions and the tracked revenue change only in the step
\* in which the subscribe handler answers a payment that returned completed:
\* then one active Subscription and one revenue entry of the payment's user
\* and amount are added and the answer is success; when the payment failed
\* nothing is added and the answer is error.
C27_EnrolledOncePerCompletedPayment ==
  [][IF \E c \in Calls : Answers(c)
       THEN \A c \in Calls : Answers(c) =>
              IF calls[c].payment_status = "completed"
                THEN /\ OneMore(subscriptions, subscriptions')
                     /\ OneMore(revenue_data, revenue_data')
                     /\ LET s == subscriptions'[Len(subscriptions')]
                            r == revenue_data'[Len(revenue_data')]
                        IN /\ s.status = "active"
                           /\ s.user_id = calls[c].customer_email
                           /\ s.amount_zar = calls[c].amount
                           /\ r.user_id = calls[c].customer_email
                           /\ r.amount = calls[c].amount
                           /\ r.type = "subscription"
                     /\ report'.op = "subscribe_to_course"
                     /\ report'.value.status = "success"
                     /\ report'.value.payment_reference
                          = calls[c].payment_result.transaction_id
                ELSE /\ calls[c].payment_status = "failed"
                     /\ subscriptions' = subscriptions
                     /\ revenue_data' = revenue_data
                     /\ report'.op = "subscribe_to_course"
                     /\ report'.value = [status |-> "error"]
       ELSE /\ subscriptions' = subscriptions
            /\ revenue_data' = revenue_data
            /\ report'.op # "subscribe_to_course"]_vars

\* The handler has answered success for a payment of the ledger and holds
\* one subscription and one revenue entry for it.
C27_Witness ==
  /\ report.op = "subscribe_to_course"
  /\ report.value.status = "success"
  /\ \E i \in DOMAIN transaction_history :
       transaction_history[i].transaction_id = report.value.payment_reference
  /\ Len(subscriptions) = 1
  /\ Len(revenue_data) = 1

\* C28: in a financial report over fewer than 14 daily records the weekly
\* and the monthly growth are 0 whatever the records' totals, and the trend
\* is insufficient_data below 2 records and stable from 2 to 13; a growth
\* other than 0 is reported only over 14 records or more.
C28_NoGrowthBelowTwoWeeks ==
  report.op = "generate_financial_report" =>
    LET n == Len(GetDistributionHistory(SummaryDays))
        m == report.value.growth_metrics
    IN /\ n < GrowthMinRows =>
            /\ IsZero(m.weekly_growth)
            /\ IsZero(m.monthly_growth)
            /\ m.trend = IF n < 2 THEN "insufficient_data" ELSE "stable"
       /\ ~IsZero(m.weekly_growth) => n >= GrowthMinRows

\* A report over eight records, the first of another total than the last.
C28_Witness ==
  /\ report.op = "generate_financial_report"
  /\ Len(GetDistributionHistory(SummaryDays)) = WeekLen + 1
  /\ daily_distributions[1].total_distributed
       # daily_distributions[Len(daily_distributions)].total_distributed
  /\ report.value.growth_metrics.trend = "stable"

\* ------------------------------------------------------------------ AIAgent
\* The agent is a SupportAgent, the subclass that defines the most handlers:
\* those of AIAgent and handle_support.  No class defines analyze_data.
Methods == {"create_course", "run_marketing_campaign", "create_content", "handle_support"}

\* The task types of execute_task's branches, and one it does not know.
TaskTypes ==
  {"course_creation", "marketing", "content_creation", "analysis", "support",
   "translation"}

\* The parameters of a task: none, a topic, a product with its budget, or a
\* content type that create_content does not support.
TaskParameters ==
  {EmptyMap, [topic |-> "ai"], [product |-> "platform", budget |-> 500],
   [content_type |-> "video"]}

Tasks == [type : TaskTypes, parameters : TaskParameters]

\* What the awaited handler does: it returns a result, or an exception is
\* raised (KeyError by parameters[...], AttributeError by a missing method).
Raised(e) == [raised |-> e]

\* create_course reads parameters['topic'].
CreateCourse(parameters) ==
  IF "topic" \in DOMAIN parameters
    THEN [status |-> "success", kind |-> "course"]
    ELSE Raised("KeyError")

\* run_marketing_campaign reads parameters['product'] and ['budget'].
RunMarketingCampaign(parameters) ==
  IF {"product", "budget"} \subseteq DOMAIN parameters
    THEN [status |-> "success", kind |-> "campaign"]
    ELSE Raised("KeyError")

\* create_content: the three supported content types read
\* parameters['topic']; any other type yields an error text as content.
CreateContent(parameters) ==
  LET content_type ==
        IF "content_type" \in DOMAIN parameters THEN parameters.content_type
                                                ELSE "blog_post"
  IN IF content_type \in {"blog_post", "social_media", "email"}
          /\ "topic" \notin DOMAIN parameters
       THEN Raised("KeyError")
       ELSE [status |-> "success", kind |-> "content"]

\* handle_support reads its parameters with get.
HandleSupport(parameters) == [status |-> "success", kind |-> "response"]

\* self.<method>(parameters)
CallMethod(method, parameters) ==
  IF method \notin Methods THEN Raised("AttributeError")
  ELSE CASE method = "create_course" -> CreateCourse(parameters)
         [] method = "run_marketing_campaign" -> RunMarketingCampaign(parameters)
         [] method = "create_content" -> CreateContent(parameters)
         [] method = "handle_support" -> HandleSupport(parameters)

\* Lines 20-31: the result of the branch of the task's type.
Dispatch(task) ==
  CASE task.type = "course_creation" -> CallMethod("create_course", task.parameters)
    [] task.type = "marketing" -> CallMethod("run_marketing_campaign", task.parameters)
    [] task.type = "content_creation" -> CallMethod("create_content", task.parameters)
    [] task.type = "analysis" -> CallMethod("analyze_data", task.parameters)
    [] task.type = "support" -> CallMethod("handle_support", task.parameters)
    [] OTHER -> [status |-> "error", message |-> <<"Unknown task type", task.type>>]

NoTasks == [total_tasks |-> 0, successful_tasks |-> 0, failed_tasks |-> 0]

\* _track_performance, without the durations (differences of clock readings).
TrackPerformance(metrics, task_type, status) ==
  LET known == IF task_type \in DOMAIN metrics THEN metrics
                                               ELSE (task_type :> NoTasks) @@ metrics
      m == known[task_type]
  IN [known EXCEPT ![task_type] =
        [total_tasks |-> m.total_tasks + 1,
         successful_tasks |-> m.successful_tasks + (IF status = "success" THEN 1 ELSE 0),
         failed_tasks |-> m.failed_tasks + (IF status = "success" THEN 0 ELSE 1)]]

RECURSIVE TotalTasks(_, _)
TotalTasks(metrics, types) ==
  IF types = {} THEN 0
  ELSE LET t == CHOOSE x \in types : TRUE
       IN metrics[t].total_tasks + TotalTasks(metrics, types \ {t})

\* execute_task(task): report holds what it returns.
ExecuteTask(task) ==
  /\ TotalTasks(performance_metrics, DOMAIN performance_metrics) < MaxTasks
  /\ LET result == Dispatch(task) IN
       IF "raised" \in DOMAIN result
         THEN /\ performance_metrics' =
                   TrackPerformance(performance_metrics, task.type, "error")
              /\ task_history' = task_history
              /\ report' = [op |-> "execute_task", args |-> <<task>>,
                            value |-> [status |-> "error", message |-> result.raised]]
         ELSE /\ performance_metrics' =
                   TrackPerformance(performance_metrics, task.type, "success")
              /\ task_history' = ListAppend(task_history, [task |-> task, result |-> result])
              /\ report' = [op |-> "execute_task", args |-> <<task>>, value |-> result]
  /\ UNCHANGED <<ledger, platform_performance, scheduled_posts>>

NextAgent == \E task \in Tasks : ExecuteTask(task)

AgentSpec == Init /\ [][NextAgent]_vars

\* The entry of performance_metrics for a task type, before its first task too.
MetricsOf(metrics, type) == IF type \in DOMAIN metrics THEN metrics[type] ELSE NoTasks

\* C29: in every execute_task step the counters of the task's type satisfy
\* total_tasks = successful_tasks + failed_tasks, successful_tasks goes up
\* by one exactly when the returned result has status success and
\* failed_tasks otherwise, and task_history gets one entry exactly when
\* successful_tasks goes up.
C29_SuccessfulCountsSuccess ==
  [][report'.op = "execute_task" =>
       LET type == report'.args[1].type
           ok == IF report'.value.status = "success" THEN 1 ELSE 0
           old == MetricsOf(performance_metrics, type)
           new == MetricsOf(performance_metrics', type)
       IN /\ new.total_tasks = new.successful_tasks + new.failed_tasks
          /\ new.successful_tasks = old.successful_tasks + ok
          /\ new.failed_tasks = old.failed_tasks + (1 - ok)
          /\ Len(task_history') = Len(task_history) + ok]_vars

\* ---------------------------------------------------- SocialMediaAutoPoster
\* The keys of self.platforms, in the order of the dict.
platforms ==
  <<"linkedin", "tiktok", "instagram", "facebook", "youtube", "x", "pinterest",
    "snapchat", "reddit">>

\* _create_optimal_schedule
posting_schedule ==
  [linkedin |-> <<"08:00", "12:00", "17:00", "20:00">>,
   tiktok |-> <<"09:00", "13:00", "19:00", "22:00">>,
   instagram |-> <<"08:00", "12:00", "16:00", "20:00">>,
   facebook |-> <<"07:00", "12:00", "18:00", "21:00">>,
   youtube |-> <<"10:00", "15:00", "20:00">>,
   x |-> <<"07:00", "12:00", "17:00", "21:00">>,
   pinterest |-> <<"14:00", "20:00", "22:00">>,
   snapchat |-> <<"08:00", "16:00", "22:00">>,
   reddit |-> <<"09:00", "13:00", "18:00", "23:00">>]

\* self.posting_schedule.get(platform, ["09:00", "18:00"])
TimesOf(platform) ==
  IF platform \in DOMAIN posting_schedule THEN posting_schedule[platform]
                                          ELSE <<"09:00", "18:00">>

\* The platforms that campaigns bring content for, and the batches: a list
\* of 0 to MaxContent items for each of them, nothing for the others.
ContentPlatforms == {"linkedin", "youtube"}
ContentOf(platform, n) == [i \in 1..n |-> <<platform, "post", i>>]
ContentBatches ==
  {[p \in ContentPlatforms |-> ContentOf(p, n[p])] :
     n \in [ContentPlatforms -> 0..MaxContent]}

\* content_batch.get(platform_name, [])
PlatformContent(content_batch, platform) ==
  IF platform \in DOMAIN content_batch THEN content_batch[platform] ELSE <<>>

\* The items of content that get a time: those with i < len(times).
Timed(content, platform) ==
  IF Len(content) < Len(TimesOf(platform)) THEN Len(content) ELSE Len(TimesOf(platform))

\* poster.schedule_post(post_content, post_time), by its platform and time.
SchedulePost(platform, post_content, post_time) ==
  [platform |-> platform, scheduled_time |-> post_time]

\* The entries _schedule_platform_posts appends to self.scheduled_posts
\* (lines 79-85), without scheduled_at.
StoredPosts(content, platform) ==
  [i \in 1..Timed(content, platform) |->
     [platform |-> platform, content |-> content[i],
      scheduled_time |-> TimesOf(platform)[i], status |-> "scheduled"]]

\* The dict _schedule_platform_posts returns (lines 87-91).
SchedulePlatformPosts(content, platform) ==
  LET scheduled ==
        [i \in 1..Timed(content, platform) |->
           SchedulePost(platform, content[i], TimesOf(platform)[i])]
  IN [scheduled_posts |-> scheduled,
      total_posts |-> Len(scheduled),
      next_post_time |-> IF TimesOf(platform) # <<>> THEN TimesOf(platform)[1]
                                                     ELSE "No schedule"]

\* len() of a dict: the number of its keys.
DictLen(d) == Cardinality(DOMAIN d)

NoPosts == [total_posts |-> 0, successful_posts |-> 0, failed_posts |-> 0]

\* _track_platform_performance, without the engagement rate it leaves at 0.0.
TrackPlatformPerformance(metrics, platform, post_count) ==
  LET known == IF platform \in DOMAIN metrics THEN metrics
                                              ELSE (platform :> NoPosts) @@ metrics
      m == known[platform]
  IN [known EXCEPT ![platform] =
        [total_posts |-> m.total_posts + post_count,
         successful_posts |-> m.successful_posts + post_count,
         failed_posts |-> m.failed_posts]]

\* The loop of auto_post_campaign over self.platforms from the i-th on:
\* the posts stored, the metrics and the results after it.
RECURSIVE CampaignFrom(_, _, _)
CampaignFrom(i, content_batch, acc) ==
  IF i > Len(platforms) THEN acc
  ELSE
    LET platform_name == platforms[i]
        platform_content == PlatformContent(content_batch, platform_name)
    IN IF platform_content # <<>>
         THEN LET scheduled == SchedulePlatformPosts(platform_content, platform_name)
              IN CampaignFrom(i + 1, content_batch,
                   [stored |-> acc.stored \o StoredPosts(platform_content, platform_name),
                    metrics |-> TrackPlatformPerformance(acc.metrics, platform_name,
                                                         DictLen(scheduled)),
                    results |-> (platform_name :> scheduled) @@ acc.results])
         ELSE CampaignFrom(i + 1, content_batch,
                [acc EXCEPT !.results =
                   (platform_name :> [status |-> "skipped",
                                      reason |-> "No content provided"]) @@ @])

\* posts.get('scheduled_posts', []) summed over the results.
RECURSIVE TotalScheduled(_, _)
TotalScheduled(results, names) ==
  IF names = {} THEN 0
  ELSE LET p == CHOOSE x \in names : TRUE
       IN (IF "scheduled_posts" \in DOMAIN results[p]
             THEN Len(results[p].scheduled_posts) ELSE 0)
            + TotalScheduled(results, names \ {p})

\* auto_post_campaign(content_batch): report holds what it returns, without
\* the campaign id.
AutoPostCampaign(content_batch) ==
  /\ Len(scheduled_posts) < MaxPosts
  /\ LET after == CampaignFrom(1, content_batch,
                    [stored |-> scheduled_posts, metrics |-> platform_performance,
                     results |-> EmptyMap])
     IN /\ scheduled_posts' = after.stored
        /\ platform_performance' = after.metrics
        /\ report' = [op |-> "auto_post_campaign", args |-> <<content_batch>>,
                      value |-> [total_platforms |-> DictLen(after.results),
                                 total_posts_scheduled |->
                                   TotalScheduled(after.results, DOMAIN after.results),
                                 platform_results |-> after.results]]
  /\ UNCHANGED <<ledger, performance_metrics, task_history>>

NextPoster == \E content_batch \in ContentBatches : AutoPostCampaign(content_batch)

PosterSpec == Init /\ [][NextPoster]_vars

PostsOf(metrics, platform) ==
  IF platform \in DOMAIN metrics THEN metrics[platform] ELSE NoPosts

\* The entries of posts that are of the platform.
StoredFor(posts, platform) ==
  Cardinality({i \in DOMAIN posts : posts[i].platform = platform})

\* C30: in every auto_post_campaign step, for each platform that was given
\* content, total_posts and successful_posts go up by the number of entries
\* the campaign appended to scheduled_posts for the platform, which is the
\* smaller of the number of content items and of the platform's time slots.
C30_MetricsCountScheduled ==
  [][report'.op = "auto_post_campaign" =>
       \A p \in DOMAIN report'.args[1] :
         LET content == report'.args[1][p]
             appended == StoredFor(scheduled_posts', p) - StoredFor(scheduled_posts, p)
             old == PostsOf(platform_performance, p)
             new == PostsOf(platform_performance', p)
         IN content # <<>> =>
              /\ appended = Timed(content, p)
              /\ new.total_posts = old.total_posts + appended
              /\ new.successful_posts = old.successful_posts + appended]_vars

=============================================================================
